---- MODULE Spec2Model ----
(***************************************************************************)
(* png2svg: cover the pixel grid of a decoded PNG with solid rectangles    *)
(* and write them as a minimized SVG document.                             *)
(*                                                                         *)
(* Three specifications share the variables:                               *)
(*   Spec     one run of the command (cmd/png2svg main)                    *)
(*   SpecAPI  the exported PixelImage methods called in any order          *)
(*   SpecDoc  groupLinesByFillColor and String applied to bounded          *)
(*            documents                                                    *)
(* Text is a sequence of one-character strings, so that the substring      *)
(* operations of the Go code (Contains, Fields, Split, Replace) are        *)
(* computed as the code computes them.                                     *)
(***************************************************************************)
EXTENDS Integers, Sequences, FiniteSets, TLC

VARIABLES
    pc,                     \* position in main / "api" / "doc"
    args,                   \* the parsed command line: [p, c, q, v]
    img,                    \* the decoded image: [w, h, px]
    singlePixelRectangles,  \* main's variable, overridden by colorPink
    pixels, w, h,           \* PixelImage.pixels, .w, .h
    box, expanded,          \* main's box and expanded
    svgTag,                 \* the rectangles added to the SVG tag, in order
    stdout,                 \* what was written to standard output, in order
    files,                  \* the file system: filename -> content or NoFile
    err,                    \* the last value WriteSVG returned
    exitCode,               \* the process exit status, -1 while running
    lines, outLines, doc    \* SpecDoc: input lines, grouped lines, document

vars == <<pc, args, img, singlePixelRectangles, pixels, w, h, box, expanded,
          svgTag, stdout, files, err, exitCode, lines, outLines, doc>>

---------------------------------------------------------------------------
(* Bounds *)

\* An image has at most MaxPixels pixels (width * height).
MaxPixels == 4
\* SpecDoc documents have at most MaxLines lines.
MaxLines == 3

---------------------------------------------------------------------------
(* Text: sequences of one-character strings *)

Digit == <<"0","1","2","3","4","5","6","7","8","9">>
HexDigit == <<"0","1","2","3","4","5","6","7","8","9","a","b","c","d","e","f">>

\* strconv.Itoa for a natural number
RECURSIVE Itoa(_)
Itoa(n) == IF n < 10 THEN <<Digit[n + 1]>>
           ELSE Itoa(n \div 10) \o <<Digit[(n % 10) + 1]>>

\* fmt "%02x" of a byte
Hex2(n) == <<HexDigit[(n \div 16) + 1], HexDigit[(n % 16) + 1]>>

\* fmt "%x" of a nibble
Hex1(n) == <<HexDigit[n + 1]>>

HexVal(c) == CHOOSE v \in 0..15 : HexDigit[v + 1] = c

---------------------------------------------------------------------------
(* String literals of the source, as character sequences *)

\* \n
T_Newline == <<"\n">>
\* "
T_Quote == <<"\"">>
\*  fill="
T_FillAttr == <<" ","f","i","l","l","=","\"">>
\* fill=
T_FillEq == <<"f","i","l","l","=">>
\* <g fill="
T_GOpen == <<"<","g"," ","f","i","l","l","=","\"">>
\* ">
T_TagEnd == <<"\"",">">>
\* </g>
T_GClose == <<"<","/","g",">">>
\*  />
T_SpaceSlash == <<" ","/",">">>
\* />
T_Slash == <<"/",">">>
\*   
T_TwoSpaces == <<" "," ">>
\*  
T_Space == <<" ">>
\*  x="0"
T_X0 == <<" ","x","=","\"","0","\"">>
\*  y="0"
T_Y0 == <<" ","y","=","\"","0","\"">>
\*  width="0"
T_Width0 == <<" ","w","i","d","t","h","=","\"","0","\"">>
\*  height="0"
T_Height0 == <<" ","h","e","i","g","h","t","=","\"","0","\"">>
\* > <
T_TagGap == <<">"," ","<">>
\* ><
T_TagJoin == <<">","<">>
\* #f00
T_F00 == <<"#","f","0","0">>
\* red
T_Red == <<"r","e","d">>
\* #ff0000
T_FF0000 == <<"#","f","f","0","0","0","0">>
\* #ffffff
T_FFFFFF == <<"#","f","f","f","f","f","f">>
\* white
T_White == <<"w","h","i","t","e">>
\* #000000
T_000000 == <<"#","0","0","0","0","0","0">>
\* black
T_Black == <<"b","l","a","c","k">>
\* <svg xmlns="http://www.w3.org/2000/svg" width="
T_SvgOpen == <<"<","s","v","g"," ","x","m","l","n","s","=","\"","h","t","t","p",":","/","/","w","w","w",".","w","3",".","o","r","g","/","2","0","0","0","/","s","v","g","\""," ","w","i","d","t","h","=","\"">>
\* " height="
T_HeightAttr == <<"\""," ","h","e","i","g","h","t","=","\"">>
\* </svg>
T_SvgClose == <<"<","/","s","v","g",">">>
\*   <rect x="
T_RectOpen == <<" "," ","<","r","e","c","t"," ","x","=","\"">>
\* " y="
T_YAttr == <<"\""," ","y","=","\"">>
\* " width="
T_WidthAttr == <<"\""," ","w","i","d","t","h","=","\"">>
\* " fill="
T_FillAttrQ == <<"\""," ","f","i","l","l","=","\"">>
\* " />
T_RectEnd == <<"\""," ","/",">">>
\* #bb9bc1
T_Pink == <<"#","b","b","9","b","c","1">>
\* png2svg 1.0
T_Version == <<"p","n","g","2","s","v","g"," ","1",".","0">>

---------------------------------------------------------------------------
(* Go's strings package *)

HasPrefixAt(s, p, i) ==
    /\ i + Len(p) - 1 <= Len(s)
    /\ \A k \in 1..Len(p) : s[i + k - 1] = p[k]

\* strings.HasPrefix
HasPrefix(s, p) == HasPrefixAt(s, p, 1)

\* strings.Contains
Contains(s, p) == \E i \in 1..(Len(s) - Len(p) + 1) : HasPrefixAt(s, p, i)

\* strings.Index, 1-based; 0 when p does not occur in s
Index(s, p) ==
    LET M == {i \in 1..(Len(s) - Len(p) + 1) : HasPrefixAt(s, p, i)}
    IN  IF M = {} THEN 0 ELSE CHOOSE i \in M : \A j \in M : i <= j

\* strings.Replace(s, old, new, n) for a non-empty old: the first n
\* non-overlapping occurrences from the left, all of them when n < 0.
\* M holds the places where old occurs in s; from is the place the scan
\* has reached.
RECURSIVE ReplaceFrom(_, _, _, _, _, _)
ReplaceFrom(s, old, new, n, M, from) ==
    LET C == {i \in M : i >= from}
    IN  IF n = 0 \/ C = {} THEN SubSeq(s, from, Len(s))
        ELSE LET i == CHOOSE c \in C : \A d \in C : c <= d
             IN  SubSeq(s, from, i - 1) \o new \o
                 ReplaceFrom(s, old, new, IF n < 0 THEN n ELSE n - 1, M,
                             i + Len(old))

Replace(s, old, new, n) ==
    ReplaceFrom(s, old, new, n,
                {i \in 1..(Len(s) - Len(old) + 1) : HasPrefixAt(s, old, i)}, 1)

\* unicode.IsSpace on the characters of the model
IsSpace(c) == c \in {" ", "\n", "\t"}

\* strings.Fields: the maximal runs of non-space characters
RECURSIVE Fields(_)
Fields(s) ==
    IF s = <<>> THEN <<>>
    ELSE IF IsSpace(s[1]) THEN Fields(Tail(s))
    ELSE LET E == {i \in 1..Len(s) : IsSpace(s[i])}
             e == IF E = {} THEN Len(s) + 1
                  ELSE CHOOSE i \in E : \A j \in E : i <= j
         IN  <<SubSeq(s, 1, e - 1)>> \o Fields(SubSeq(s, e, Len(s)))

\* strings.Split(s, sep) for a non-empty sep
RECURSIVE Split(_, _)
Split(s, sep) ==
    LET i == Index(s, sep)
    IN  IF i = 0 THEN <<s>>
        ELSE <<SubSeq(s, 1, i - 1)>> \o
             Split(SubSeq(s, i + Len(sep), Len(s)), sep)

\* strings.Join
RECURSIVE Join(_, _)
Join(ls, sep) ==
    IF ls = <<>> THEN <<>>
    ELSE IF Len(ls) = 1 THEN ls[1]
    ELSE ls[1] \o sep \o Join(Tail(ls), sep)

\* the concatenation of a sequence of texts (strings.Builder)
Concat(ls) == Join(ls, <<>>)

---------------------------------------------------------------------------
(* The document compaction: colorFromLine, groupLinesByFillColor, String *)

\* The value of a run-time panic (an index out of range).
Panic == <<"panic">>

\* colorFromLine: the fill colour of an SVG line, "" when it has none.
\* elems[1] of the Go code is elems[2] here; it panics when the field
\* holds no double quote.
colorFromLine(line) ==
    IF ~Contains(line, T_FillAttr) THEN <<>>
    ELSE LET fields == Fields(line)
             F == {k \in 1..Len(fields) : HasPrefix(fields[k], T_FillEq)}
         IN  IF F = {} THEN <<>>
             ELSE LET k == CHOOSE i \in F : \A j \in F : i <= j
                      elems == Split(fields[k], T_Quote)
                  IN  IF Len(elems) < 2 THEN Panic ELSE elems[2]

\* fillColor of every line, as the first loop of groupLinesByFillColor
\* computes it.
RECURSIVE FillColors(_)
FillColors(ls) ==
    IF ls = <<>> THEN <<>>
    ELSE <<colorFromLine(ls[1])>> \o FillColors(Tail(ls))

\* The keys of groupedLines: the fill colours of the lines.
GroupKeys(ls) ==
    LET fc == FillColors(ls) IN {fc[i] : i \in 1..Len(fc)} \ {<<>>}

\* The orders in which Go may range over a map with these keys.
MapOrders(keys) ==
    {o \in [1..Cardinality(keys) -> keys] :
        \A i, j \in 1..Cardinality(keys) : i # j => o[i] # o[j]}

\* Mutant of StripFill: groupedLines[key] is overwritten, not appended to,
\* so that a group holds one line only.
RECURSIVE StripFill_One(_, _, _, _)
StripFill_One(ls, fc, key, i) ==
    IF i > Len(ls) THEN <<>>
    ELSE IF fc[i] = key
         THEN Replace(ls[i], T_FillAttr \o key \o T_Quote, <<>>, 1)
         ELSE StripFill_One(ls, fc, key, i + 1)

\* One <g> element: groupedLines[key], the lines with this fill colour in
\* input order, each with its fill attribute removed
\* (the body of the second loop of groupLinesByFillColor).
RECURSIVE StripFill(_, _, _, _)
StripFill(ls, fc, key, i) ==
    IF i > Len(ls) THEN <<>>
    ELSE (IF fc[i] = key
          THEN Replace(ls[i], T_FillAttr \o key \o T_Quote, <<>>, 1)
          ELSE <<>>)
         \o StripFill(ls, fc, key, i + 1)

GroupTag(ls, fc, key) ==
    T_GOpen \o key \o T_TagEnd \o StripFill(ls, fc, key, 1) \o T_GClose

\* contents: the groups, in the order the map yields its keys.
RECURSIVE GroupContents(_, _, _)
GroupContents(ls, fc, order) ==
    IF order = <<>> THEN <<>>
    ELSE GroupTag(ls, fc, order[1]) \o GroupContents(ls, fc, Tail(order))

\* Mutant of groupLinesByFillColor: without the inserted flag, every empty
\* line receives the contents.
groupLinesByFillColor_Every(ls, order) ==
    LET fc == FillColors(ls)
        contents == GroupContents(ls, fc, order)
    IN  [i \in 1..Len(ls) |->
            IF fc[i] # <<>> \/ ls[i] = <<>> THEN contents ELSE ls[i]]

\* groupLinesByFillColor, with the order in which the map yields its keys:
\* every line with a fill colour is erased, and the contents replace the
\* first empty line.
RECURSIVE InsertContents(_, _, _, _, _)
InsertContents(ls, fc, first, contents, i) ==
    IF i > Len(ls) THEN <<>>
    ELSE << IF i = first THEN contents
            ELSE IF fc[i] # <<>> THEN <<>> ELSE ls[i] >>
         \o InsertContents(ls, fc, first, contents, i + 1)

groupLinesByFillColor(ls, order) ==
    LET fc == FillColors(ls)
        E == {i \in 1..Len(ls) : fc[i] # <<>> \/ ls[i] = <<>>}
        first == IF E = {} THEN 0 ELSE CHOOSE i \in E : \A j \in E : i <= j
        contents == GroupContents(ls, fc, order)
    IN  InsertContents(ls, fc, first, contents, 1)

\* The textual minimization of String, after the grouping.
Minimize(svgDocument) ==
    LET d1 == Replace(svgDocument, T_Newline, <<>>, -1)
        d2 == Replace(d1, T_SpaceSlash, T_Slash, -1)
        d3 == Replace(d2, T_TwoSpaces, T_Space, -1)
        d4 == Replace(d3, T_X0, <<>>, -1)
        d5 == Replace(d4, T_Y0, <<>>, -1)
        d6 == Replace(d5, T_Width0, <<>>, -1)
        d7 == Replace(d6, T_Height0, <<>>, -1)
        d8 == Replace(d7, T_TagGap, T_TagJoin, -1)
        d9 == Replace(d8, T_F00, T_Red, -1)
        d10 == Replace(d9, T_FF0000, T_Red, -1)
        d11 == Replace(d10, T_FFFFFF, T_White, -1)
        d12 == Replace(d11, T_000000, T_Black, -1)
    IN  d12

\* PixelImage.String on the rendered page text, with the map order.
String(pageText, order) ==
    Minimize(Join(groupLinesByFillColor(Split(pageText, T_Newline), order),
                  T_Newline))

---------------------------------------------------------------------------
(* The emitter (onthefly): rectangles added to the SVG tag, and the page *)

\* The fill of a rectangle drawn at full colour depth: #rrggbb.
ColorString(r, g, b) == <<"#">> \o Hex2(r) \o Hex2(g) \o Hex2(b)

\* The fill of a rectangle in the reduced palette: the high four bits of
\* each channel, #rgb (16 * 16 * 16 = 4096 colours).
ShortColorString(r, g, b) ==
    <<"#">> \o Hex1(r \div 16) \o Hex1(g \div 16) \o Hex1(b \div 16)

\* svgTag.Pixel(x, y, r, g, b): a 1x1 rectangle of that colour.
SvgPixel(x, y, r, g, b) ==
    [x |-> x, y |-> y, w |-> 1, h |-> 1, fill |-> ColorString(r, g, b)]

\* One line of the page for one rectangle.
RectLine(rc) ==
    T_RectOpen \o Itoa(rc.x) \o T_YAttr \o Itoa(rc.y)
    \o T_WidthAttr \o Itoa(rc.w) \o T_HeightAttr \o Itoa(rc.h)
    \o T_FillAttrQ \o rc.fill \o T_RectEnd

\* page.String(): the envelope and one line per rectangle.
PageLines(tag, width, height) ==
    << T_SvgOpen \o Itoa(width) \o T_HeightAttr \o Itoa(height) \o T_TagEnd >>
    \o [i \in 1..Len(tag) |-> RectLine(tag[i])]
    \o << T_SvgClose >>

PageString(tag, width, height) == Join(PageLines(tag, width, height), T_Newline)

---------------------------------------------------------------------------
(* PixelImage *)

\* Mutant of NewPixelImage: the red and the blue channel change places.
NewPixelImage_Swapped(image) ==
    [i \in 1..(image.w * image.h) |->
        [x |-> (i - 1) % image.w, y |-> (i - 1) \div image.w,
         r |-> image.px[i].b, g |-> image.px[i].g, b |-> image.px[i].r,
         a |-> image.px[i].a, covered |-> (image.px[i].a = 0)]]

\* Mutant of NewPixelImage: no pixel starts covered.
NewPixelImage_Uncovered(image) ==
    [i \in 1..(image.w * image.h) |->
        [x |-> (i - 1) % image.w, y |-> (i - 1) \div image.w,
         r |-> image.px[i].r, g |-> image.px[i].g, b |-> image.px[i].b,
         a |-> image.px[i].a, covered |-> FALSE]]

\* NewPixelImage: one Pixel per image pixel, row-major; a transparent pixel
\* starts covered.
NewPixelImage(image) ==
    [i \in 1..(image.w * image.h) |->
        [x |-> (i - 1) % image.w, y |-> (i - 1) \div image.w,
         r |-> image.px[i].r, g |-> image.px[i].g, b |-> image.px[i].b,
         a |-> image.px[i].a, covered |-> (image.px[i].a = 0)]]

\* Mutant of Done: the loop returns at its first pixel.
Done_First(px) == px = <<>> \/ px[1].covered

\* PixelImage.Done
Done(px) == \A i \in 1..Len(px) : px[i].covered

\* PixelImage.At
At(px, width, x, y) ==
    LET p == px[y * width + x + 1] IN <<p.r, p.g, p.b>>

\* PixelImage.Covered
Covered(px, width, x, y) == px[y * width + x + 1].covered

\* Mutant of FirstUncovered: the test of covered is negated.
FirstUncovered_Negated(px, width, height) ==
    LET U == {c \in (0..(width - 1)) \X (0..(height - 1)) :
                 px[c[2] * width + c[1] + 1].covered}
    IN  IF U = {} THEN Panic
        ELSE CHOOSE c \in U : \A d \in U :
                 c[2] < d[2] \/ (c[2] = d[2] /\ c[1] <= d[1])

\* PixelImage.FirstUncovered: the first uncovered pixel, rows first;
\* it panics when every pixel is covered.
FirstUncovered(px, width, height) ==
    LET U == {c \in (0..(width - 1)) \X (0..(height - 1)) :
                 ~px[c[2] * width + c[1] + 1].covered}
    IN  IF U = {} THEN Panic
        ELSE CHOOSE c \in U : \A d \in U :
                 c[2] < d[2] \/ (c[2] = d[2] /\ c[1] <= d[1])

\* PixelImage.CoverAllPixels from pixel i on: a 1x1 rectangle for every pixel
\* that is not covered yet.
RECURSIVE CoverAllFrom(_, _, _)
CoverAllFrom(px, tag, i) ==
    IF i > Len(px) THEN [pixels |-> px, svgTag |-> tag]
    ELSE IF ~px[i].covered
         THEN CoverAllFrom([px EXCEPT ![i].covered = TRUE],
                           Append(tag, SvgPixel(px[i].x, px[i].y,
                                                px[i].r, px[i].g, px[i].b)),
                           i + 1)
         ELSE CoverAllFrom(px, tag, i + 1)

\* Mutant of CoverAllPixels: a rectangle for every pixel, covered or not.
CoverAllPixels_Every(px, tag) ==
    [pixels |-> [i \in 1..Len(px) |-> [px[i] EXCEPT !.covered = TRUE]],
     svgTag |-> tag \o [i \in 1..Len(px) |->
                          SvgPixel(px[i].x, px[i].y, px[i].r, px[i].g, px[i].b)]]

CoverAllPixels(px, tag) == CoverAllFrom(px, tag, 1)

\* coverCount of CoverAllPixels
CoverCount(px) == Cardinality({i \in 1..Len(px) : ~px[i].covered})

---------------------------------------------------------------------------
(* Box: CreateBox, Expand, CoverBox *)

NoBox == [x |-> 0, y |-> 0, w |-> 0, h |-> 0, r |-> 0, g |-> 0, b |-> 0]

\* CreateBox: a 1x1 box at (x, y) with the colour of that pixel.
CreateBox(px, width, x, y) ==
    LET c == At(px, width, x, y)
    IN  [x |-> x, y |-> y, w |-> 1, h |-> 1, r |-> c[1], g |-> c[2], b |-> c[3]]

\* A pixel the box may take in: inside the grid, not covered, of the box's colour.
Matches(px, width, bo, x, y) ==
    /\ ~Covered(px, width, x, y)
    /\ At(px, width, x, y) = <<bo.r, bo.g, bo.b>>

\* One column to the right.
ExpandRight(px, width, bo) ==
    /\ bo.x + bo.w < width
    /\ \A y \in bo.y..(bo.y + bo.h - 1) : Matches(px, width, bo, bo.x + bo.w, y)

\* One row downwards.
ExpandDown(px, width, height, bo) ==
    /\ bo.y + bo.h < height
    /\ \A x \in bo.x..(bo.x + bo.w - 1) : Matches(px, width, bo, x, bo.y + bo.h)

RECURSIVE ExpandRightAll(_, _, _)
ExpandRightAll(px, width, bo) ==
    IF ExpandRight(px, width, bo)
    THEN ExpandRightAll(px, width, [bo EXCEPT !.w = bo.w + 1])
    ELSE bo

RECURSIVE ExpandDownAll(_, _, _, _)
ExpandDownAll(px, width, height, bo) ==
    IF ExpandDown(px, width, height, bo)
    THEN ExpandDownAll(px, width, height, [bo EXCEPT !.h = bo.h + 1])
    ELSE bo

\* Expand: to the right as far as possible, then downwards as far as possible.
Expand(px, width, height, bo) ==
    ExpandDownAll(px, width, height, ExpandRightAll(px, width, bo))

\* The pixels of a box, as indices of pixels.
BoxPixels(width, bo) ==
    {y * width + x + 1 : x \in bo.x..(bo.x + bo.w - 1), y \in bo.y..(bo.y + bo.h - 1)}

\* CoverBox: one rectangle for the box (pink, quantized, or of the box's
\* colour), and every pixel of the box covered.
CoverBox(px, width, tag, bo, pink, optimizeColors) ==
    LET fill == IF pink THEN T_Pink
                ELSE IF optimizeColors THEN ShortColorString(bo.r, bo.g, bo.b)
                ELSE ColorString(bo.r, bo.g, bo.b)
    IN  [pixels |-> [i \in 1..Len(px) |->
                        IF i \in BoxPixels(width, bo)
                        THEN [px[i] EXCEPT !.covered = TRUE] ELSE px[i]],
         svgTag |-> Append(tag, [x |-> bo.x, y |-> bo.y, w |-> bo.w, h |-> bo.h,
                                 fill |-> fill])]

---------------------------------------------------------------------------
(* WriteSVG *)

NoFile == <<"no such file">>
OldFile == <<"earlier content">>
FileNames == {"out.svg"}
OutputNames == {"-"} \cup FileNames

ErrNotCovered == "the SVG representation does not cover all pixels"
ErrCreate == "os.Create failed"
ErrWrite == "WriteString failed"

\* What the operating system does with the call: os.Create or WriteString
\* may fail.
IOOutcomes == {"ok", "create fails", "write fails"}

\* Mutant of WriteSVG: the test of Done is missing.
WriteSVG_Unchecked(px, verbose, filename, fs, out, io, text) ==
    IF filename # "-" /\ io = "create fails"
    THEN [err |-> ErrCreate, files |-> fs, stdout |-> out]
    ELSE IF io = "write fails"
    THEN [err |-> ErrWrite, files |-> fs, stdout |-> out]
    ELSE [err |-> "nil",
          files |-> IF filename = "-" THEN fs ELSE [fs EXCEPT ![filename] = text],
          stdout |-> IF filename = "-" THEN Append(out, text) ELSE out]

\* WriteSVG(filename) on the file system fs and the standard output out.
\* text is what pi.String() returns in this call. The result is the error
\* returned and the new file system and output.
WriteSVG(px, verbose, filename, fs, out, io, text) ==
    IF ~Done(px)
    THEN [err |-> ErrNotCovered, files |-> fs, stdout |-> out]
    ELSE LET out1 == IF verbose
                     THEN Append(out, <<"Writing ", filename, "...">>) ELSE out
         IN  IF filename # "-" /\ io = "create fails"
             THEN [err |-> ErrCreate, files |-> fs, stdout |-> out1]
             ELSE LET fs1 == IF filename = "-" THEN fs
                             ELSE [fs EXCEPT ![filename] = <<>>]
                  IN  IF io = "write fails"
                      THEN [err |-> ErrWrite, files |-> fs1, stdout |-> out1]
                      ELSE [err |-> "nil",
                            files |-> IF filename = "-" THEN fs1
                                      ELSE [fs1 EXCEPT ![filename] = text],
                            stdout |->
                               LET out2 == IF filename = "-"
                                           THEN Append(out1, text) ELSE out1
                               IN  IF verbose THEN Append(out2, <<"ok">>)
                                   ELSE out2]

\* The values pi.String() may return: one for every order in which the map
\* of groupLinesByFillColor yields its keys.
Strings(tag, width, height) ==
    LET page == PageString(tag, width, height)
    IN  {String(page, order) :
            order \in MapOrders(GroupKeys(Split(page, T_Newline)))}

---------------------------------------------------------------------------
(* Inputs *)

\* The pixels of the input images: two opaque colours, and a transparent
\* pixel whose colour channels equal those of an opaque one.
PixelValues ==
    { [r |-> 255, g |-> 0, b |-> 0, a |-> 255],
      [r |-> 240, g |-> 15, b |-> 0, a |-> 255],
      [r |-> 255, g |-> 0, b |-> 0, a |-> 0] }

Dims == {d \in (1..MaxPixels) \X (1..MaxPixels) : d[1] * d[2] <= MaxPixels}

Images == UNION {[w : {d[1]}, h : {d[2]}, px : [1..(d[1] * d[2]) -> PixelValues]] :
                    d \in Dims}

Flags == [p : BOOLEAN, c : BOOLEAN, q : BOOLEAN, v : BOOLEAN]

---------------------------------------------------------------------------
(* Spec: one run of main *)

Init ==
    /\ pc = "start"
    /\ args \in Flags
    /\ img \in Images
    /\ singlePixelRectangles = FALSE
    /\ pixels = <<>> /\ w = 0 /\ h = 0
    /\ box = NoBox /\ expanded = FALSE
    /\ svgTag = <<>>
    /\ stdout = <<>>
    /\ files = [f \in FileNames |-> NoFile]
    /\ err = "nil"
    /\ exitCode = -1
    /\ lines = <<>> /\ outLines = <<>> /\ doc = <<>>

docVars == <<lines, outLines, doc>>

\* -V: print the version and exit.
Version ==
    /\ pc = "start"
    /\ stdout' = Append(stdout, T_Version)
    /\ exitCode' = 0
    /\ pc' = "exit"
    /\ UNCHANGED <<args, img, singlePixelRectangles, pixels, w, h, box, expanded,
                   svgTag, files, err, docVars>>

\* No input filename: exit 1.
NoInput ==
    /\ pc = "start"
    /\ exitCode' = 1
    /\ pc' = "exit"
    /\ UNCHANGED <<args, img, singlePixelRectangles, pixels, w, h, box, expanded,
                   svgTag, stdout, files, err, docVars>>

\* ReadPNG fails: exit 1.
ReadFails ==
    /\ pc = "start"
    /\ stdout' = IF args.v THEN Append(stdout, <<"Reading ...">>) ELSE stdout
    /\ exitCode' = 1
    /\ pc' = "exit"
    /\ UNCHANGED <<args, img, singlePixelRectangles, pixels, w, h, box, expanded,
                   svgTag, files, err, docVars>>

\* What ReadPNG and NewPixelImage print when verbose.
StartMessages(image) ==
    << <<"Reading ...">>, <<"ok">>, <<"Converting image.Image to Pixels">> >>
    \o [i \in 1..image.h |-> <<".">>] \o << <<"ok">> >>

\* The flags are parsed, the image is read, the PixelImage is built.
Start ==
    /\ pc = "start"
    /\ singlePixelRectangles' = IF args.c THEN FALSE ELSE args.p
    /\ pixels' = NewPixelImage(img)
    /\ w' = img.w /\ h' = img.h
    /\ stdout' = IF args.v THEN stdout \o StartMessages(img) ELSE stdout
    /\ pc' = "loop"
    /\ UNCHANGED <<args, img, box, expanded, svgTag, files, err, exitCode,
                   docVars>>

\* The loop condition holds: the first uncovered pixel, and a box there.
Seed ==
    /\ pc = "loop"
    /\ ~singlePixelRectangles /\ ~Done(pixels)
    /\ LET c == FirstUncovered(pixels, w, h)
       IN  IF c = Panic
           THEN pc' = "panic" /\ box' = box
           ELSE pc' = "expand" /\ box' = CreateBox(pixels, w, c[1], c[2])
    /\ UNCHANGED <<args, img, singlePixelRectangles, pixels, w, h, expanded,
                   svgTag, stdout, files, err, exitCode, docVars>>

ExpandBox ==
    /\ pc = "expand"
    /\ box' = Expand(pixels, w, h, box)
    /\ expanded' = (box' # box)
    /\ pc' = "cover"
    /\ UNCHANGED <<args, img, singlePixelRectangles, pixels, w, h,
                   svgTag, stdout, files, err, exitCode, docVars>>

Cover ==
    /\ pc = "cover"
    /\ LET r == CoverBox(pixels, w, svgTag, box, expanded /\ args.c, args.q)
       IN  pixels' = r.pixels /\ svgTag' = r.svgTag
    /\ pc' = "loop"
    /\ UNCHANGED <<args, img, singlePixelRectangles, w, h, box, expanded,
                   stdout, files, err, exitCode, docVars>>

\* The loop condition fails.
LoopExit ==
    /\ pc = "loop"
    /\ ~(~singlePixelRectangles /\ ~Done(pixels))
    /\ pc' = "covered"
    /\ UNCHANGED <<args, img, singlePixelRectangles, pixels, w, h, box, expanded,
                   svgTag, stdout, files, err, exitCode, docVars>>

\* if singlePixelRectangles { pi.CoverAllPixels() }
SinglePixels ==
    /\ pc = "covered"
    /\ IF singlePixelRectangles
       THEN LET r == CoverAllPixels(pixels, svgTag)
            IN  /\ pixels' = r.pixels /\ svgTag' = r.svgTag
                /\ stdout' = IF args.v
                             THEN Append(stdout, <<"Covered pixels: ", CoverCount(pixels)>>)
                             ELSE stdout
       ELSE UNCHANGED <<pixels, svgTag, stdout>>
    /\ pc' = "write"
    /\ UNCHANGED <<args, img, singlePixelRectangles, w, h, box, expanded,
                   files, err, exitCode, docVars>>

\* err = pi.WriteSVG(outputFilename), and the exit status.
Write ==
    /\ pc = "write"
    /\ \E text \in (IF Done(pixels) THEN Strings(svgTag, w, h) ELSE {<<>>}) :
       \E outputFilename \in OutputNames, io \in IOOutcomes :
          LET r == WriteSVG(pixels, args.v, outputFilename, files, stdout, io, text)
          IN  /\ err' = r.err /\ files' = r.files /\ stdout' = r.stdout
              /\ exitCode' = IF r.err # "nil" THEN 1 ELSE 0
    /\ pc' = "exit"
    /\ UNCHANGED <<args, img, singlePixelRectangles, pixels, w, h, box, expanded,
                   svgTag, docVars>>

Next ==
    \/ Version
    \/ NoInput
    \/ ReadFails
    \/ Start
    \/ Seed
    \/ ExpandBox
    \/ Cover
    \/ LoopExit
    \/ SinglePixels
    \/ Write

Spec == Init /\ [][Next]_vars

---------------------------------------------------------------------------
(* SpecAPI: a client of the package covers the image with boxes or with   *)
(* single pixels, in any order, and calls WriteSVG at any moment.         *)

InitAPI ==
    /\ pc = "api"
    /\ args \in {a \in Flags : ~a.p /\ ~a.c}
    /\ img \in Images
    /\ singlePixelRectangles = FALSE
    /\ pixels = NewPixelImage(img) /\ w = img.w /\ h = img.h
    /\ box = NoBox /\ expanded = FALSE
    /\ svgTag = <<>>
    /\ stdout = <<>>
    /\ files = [f \in FileNames |-> OldFile]
    /\ err = "nil"
    /\ exitCode = -1
    /\ lines = <<>> /\ outLines = <<>> /\ doc = <<>>

\* FirstUncovered, CreateBox, Expand, CoverBox: the body of main's loop.
APICoverBox ==
    /\ pc = "api"
    /\ ~Done(pixels)
    /\ LET c == FirstUncovered(pixels, w, h)
           bo == Expand(pixels, w, h, CreateBox(pixels, w, c[1], c[2]))
           r == CoverBox(pixels, w, svgTag, bo, FALSE, args.q)
       IN  /\ box' = bo
           /\ expanded' = (bo.w * bo.h > 1)
           /\ pixels' = r.pixels /\ svgTag' = r.svgTag
    /\ UNCHANGED <<pc, args, img, singlePixelRectangles, w, h, stdout, files,
                   err, exitCode, docVars>>

\* CoverAllPixels, called while pixels remain.
APICoverAllPixels ==
    /\ pc = "api"
    /\ ~Done(pixels)
    /\ LET r == CoverAllPixels(pixels, svgTag)
       IN  /\ pixels' = r.pixels /\ svgTag' = r.svgTag
           /\ stdout' = IF args.v
                        THEN Append(stdout, <<"Covered pixels: ", CoverCount(pixels)>>)
                        ELSE stdout
    /\ UNCHANGED <<pc, args, img, singlePixelRectangles, w, h, box, expanded,
                   files, err, exitCode, docVars>>

\* WriteSVG(filename), covered or not.
APIWriteSVG ==
    /\ pc = "api"
    /\ \E text \in (IF Done(pixels) THEN Strings(svgTag, w, h) ELSE {<<>>}) :
       \E filename \in OutputNames, io \in IOOutcomes :
          LET r == WriteSVG(pixels, args.v, filename, files, stdout, io, text)
          IN  err' = r.err /\ files' = r.files /\ stdout' = r.stdout
    /\ pc' = "written"
    /\ UNCHANGED <<args, img, singlePixelRectangles, pixels, w, h, box, expanded,
                   svgTag, exitCode, docVars>>

NextAPI == APICoverBox \/ APICoverAllPixels \/ APIWriteSVG

SpecAPI == InitAPI /\ [][NextAPI]_vars

---------------------------------------------------------------------------
(* SpecDoc: groupLinesByFillColor and String on bounded documents *)

\* #f00f00, the colour (240, 15, 0)
T_F00F00 == ColorString(240, 15, 0)

\* The fill colours of the documents.
DocFills == {T_F00, T_FF0000, T_FFFFFF, T_000000, T_F00F00}

\* The lines of the documents: the opening tag, an empty line, a rectangle
\* of every fill colour, and a second rectangle of one of them.
DocLines ==
    { <<>>, PageLines(<<>>, 2, 1)[1] }
    \cup {RectLine([x |-> 0, y |-> 0, w |-> 1, h |-> 1, fill |-> f]) : f \in DocFills}
    \cup {RectLine([x |-> 1, y |-> 0, w |-> 1, h |-> 1, fill |-> T_FF0000])}

Documents == UNION {[1..n -> DocLines] : n \in 1..MaxLines}

InitDoc ==
    /\ pc = "doc"
    /\ lines \in Documents
    /\ outLines = <<>> /\ doc = <<>>
    /\ args = [p |-> FALSE, c |-> FALSE, q |-> FALSE, v |-> FALSE]
    /\ img = [w |-> 0, h |-> 0, px |-> <<>>]
    /\ singlePixelRectangles = FALSE
    /\ pixels = <<>> /\ w = 0 /\ h = 0
    /\ box = NoBox /\ expanded = FALSE
    /\ svgTag = <<>>
    /\ stdout = <<>>
    /\ files = [f \in FileNames |-> NoFile]
    /\ err = "nil"
    /\ exitCode = -1

progVars == <<args, img, singlePixelRectangles, pixels, w, h, box, expanded,
              svgTag, stdout, files, err, exitCode>>

\* groupLinesByFillColor(lines)
CallGroup ==
    /\ pc = "doc"
    /\ \E order \in MapOrders(GroupKeys(lines)) :
          outLines' = groupLinesByFillColor(lines, order)
    /\ pc' = "grouped"
    /\ UNCHANGED <<lines, doc, progVars>>

\* String() on a page whose text consists of these lines
CallString ==
    /\ pc = "doc"
    /\ \E order \in MapOrders(GroupKeys(lines)) :
          doc' = String(Join(lines, T_Newline), order)
    /\ pc' = "string"
    /\ UNCHANGED <<lines, outLines, progVars>>

NextDoc == CallGroup \/ CallString

SpecDoc == InitDoc /\ [][NextDoc]_vars

---------------------------------------------------------------------------
(* Properties *)

\* The covering of main has run to its end.
CoveringOver == pc \in {"write", "exit"} /\ pixels # <<>>

\* Pixel i of the image has alpha different from 0.
Opaque(i) == img.px[i].a # 0
OpaqueCount == Cardinality({i \in 1..Len(img.px) : Opaque(i)})
Uncovered(px) == {i \in 1..Len(px) : ~px[i].covered}

\* Rectangle rc contains pixel i of the image.
Inside(rc, i) ==
    LET x == (i - 1) % img.w
        y == (i - 1) \div img.w
    IN  /\ rc.x <= x /\ x < rc.x + rc.w
        /\ rc.y <= y /\ y < rc.y + rc.h

\* The emitted rectangles that contain pixel i.
RectsAt(i) == {k \in 1..Len(svgTag) : Inside(svgTag[k], i)}

\* The colour a fill of the form #rrggbb renders as.
DecodeFill(fill) ==
    IF Len(fill) = 7 /\ fill[1] = "#"
    THEN << 16 * HexVal(fill[2]) + HexVal(fill[3]),
            16 * HexVal(fill[4]) + HexVal(fill[5]),
            16 * HexVal(fill[6]) + HexVal(fill[7]) >>
    ELSE << -1, -1, -1 >>

RGB(i) == <<img.px[i].r, img.px[i].g, img.px[i].b>>

\* C1: when the covering loop of main has completed in expansion mode,
\* every pixel of the grid is covered.
C1_LoopCoversAll ==
    (pc \in {"covered", "write", "exit"} /\ ~singlePixelRectangles)
        => \A i \in 1..Len(pixels) : pixels[i].covered

\* C1 witness: the loop has just completed after two or more iterations on a
\* grid with a transparent pixel.
C1_Witness ==
    /\ pc = "covered" /\ ~singlePixelRectangles
    /\ Len(svgTag) >= 2
    /\ \E i \in 1..Len(img.px) : ~Opaque(i)
    /\ \A i \in 1..Len(pixels) : pixels[i].covered

\* The steps main has left when every remaining iteration of the loop
\* covers a single pixel: a natural number.
Rank ==
    IF pc = "start" THEN 4 * Len(img.px) + 7
    ELSE 4 * Cardinality(Uncovered(pixels))
         + (CASE pc = "loop" -> 6
              [] pc = "expand" -> 5
              [] pc = "cover" -> 4
              [] pc = "covered" -> 2
              [] pc = "write" -> 1
              [] OTHER -> 0)

\* C2: every iteration of the covering loop covers at least one pixel that
\* was not covered, no step uncovers a pixel, and every step of main lowers
\* Rank, so the loop and main terminate.
C2_LoopTerminates ==
    [][ /\ \A i \in 1..Len(pixels) :
              pixels[i].covered => (Len(pixels') = Len(pixels) /\ pixels'[i].covered)
        /\ (pc = "cover" /\ pc' = "loop")
              => Cardinality(Uncovered(pixels')) < Cardinality(Uncovered(pixels))
        /\ Rank' < Rank
      ]_vars

\* C2 witness: an iteration has completed and another one follows.
C2_Witness ==
    /\ pc = "loop" /\ ~singlePixelRectangles
    /\ Len(svgTag) >= 1
    /\ Uncovered(pixels) # {}

\* C3: a call of WriteSVG while a pixel is uncovered returns the
\* incomplete-coverage error and changes neither a file, nor the standard
\* output, nor the grid, nor the rectangles.
C3_NoPartialOutput ==
    [][ (pc = "api" /\ pc' = "written" /\ Uncovered(pixels) # {})
            => /\ err' = ErrNotCovered
               /\ UNCHANGED <<files, stdout, pixels, svgTag>>
      ]_vars

\* C3 witness: WriteSVG was called with a pixel uncovered, after a
\* rectangle was added.
C3_Witness ==
    /\ pc = "written"
    /\ err = ErrNotCovered
    /\ Uncovered(pixels) # {}
    /\ svgTag # <<>>

\* C4 as claimed: with quantize disabled, every opaque pixel lies inside an
\* emitted rectangle whose fill is the pixel's own colour.
C4_Claimed ==
    (CoveringOver /\ ~args.q)
        => \A i \in 1..Len(img.px) :
              Opaque(i) => \E k \in RectsAt(i) : DecodeFill(svgTag[k].fill) = RGB(i)

\* C4 amended: with quantize disabled, every opaque pixel lies inside an
\* emitted rectangle whose fill is the pixel's own colour, or the pink of
\* the pink-debug mode when that mode is on and the rectangle is larger
\* than 1x1.
C4_RoundTrip ==
    (CoveringOver /\ ~args.q)
        => \A i \in 1..Len(img.px) :
              Opaque(i) =>
                 \E k \in RectsAt(i) :
                    \/ DecodeFill(svgTag[k].fill) = RGB(i)
                    \/ /\ args.c
                       /\ svgTag[k].w * svgTag[k].h > 1
                       /\ svgTag[k].fill = T_Pink

\* C4 witness: a run without quantize and without pink has covered opaque
\* pixels of two colours, one of them with an expanded rectangle.
C4_Witness ==
    /\ pc = "exit" /\ exitCode = 0
    /\ ~args.q /\ ~args.c
    /\ \E i, j \in 1..Len(img.px) : Opaque(i) /\ Opaque(j) /\ RGB(i) # RGB(j)
    /\ \E k \in 1..Len(svgTag) : svgTag[k].w * svgTag[k].h > 1

\* C5: every pixel lies in at most one emitted rectangle, and a pixel with
\* alpha 0 in none.
C5_NoOverlap ==
    \A i \in 1..Len(img.px) :
        Cardinality(RectsAt(i)) <= (IF Opaque(i) THEN 1 ELSE 0)

\* C5 witness: a run has ended with rectangles on a grid that has a
\* transparent pixel and an expanded rectangle.
C5_Witness ==
    /\ pc = "exit" /\ exitCode = 0
    /\ \E i \in 1..Len(img.px) : ~Opaque(i)
    /\ Len(svgTag) >= 2
    /\ \E k \in 1..Len(svgTag) : svgTag[k].w * svgTag[k].h > 1

\* The run emitted one 1x1 rectangle per opaque pixel and nothing else.
OnePerOpaquePixel ==
    /\ Len(svgTag) = OpaqueCount
    /\ \A k \in 1..Len(svgTag) : svgTag[k].w = 1 /\ svgTag[k].h = 1

\* C6 as claimed: when single-pixel mode is requested, whatever the other
\* options are, the run emits one 1x1 rectangle per opaque pixel.
C6_Claimed == (CoveringOver /\ args.p) => OnePerOpaquePixel

\* C6 amended: when single-pixel mode is requested and the pink-debug mode
\* is not, the run emits one 1x1 rectangle per opaque pixel.
C6_SinglePixelMode == (CoveringOver /\ args.p /\ ~args.c) => OnePerOpaquePixel

\* C6 witness: a single-pixel run has ended on a grid with two opaque pixels
\* of one colour in a row and a transparent pixel.
C6_Witness ==
    /\ pc = "exit" /\ exitCode = 0
    /\ args.p /\ ~args.c
    /\ Len(svgTag) >= 2
    /\ \E i \in 1..Len(img.px) : ~Opaque(i)
    /\ \E i \in 1..(Len(img.px) - 1) :
          Opaque(i) /\ Opaque(i + 1) /\ RGB(i) = RGB(i + 1) /\ i % img.w # 0

\* C7 as claimed: when quantize is set, whatever the other options are, the
\* fill of every emitted rectangle is the quantized form of the colour of
\* the pixels it covers.
C7_Claimed ==
    args.q =>
        \A k \in 1..Len(svgTag) :
            LET i == svgTag[k].y * img.w + svgTag[k].x + 1
            IN  svgTag[k].fill = ShortColorString(img.px[i].r, img.px[i].g, img.px[i].b)

---------------------------------------------------------------------------
(* Properties of the document compaction (SpecDoc) *)

\* <rect
T_Rect == <<"<","r","e","c","t">>

\* The number of places where p occurs in s.
CountOcc(s, p) ==
    Cardinality({i \in 1..(Len(s) - Len(p) + 1) : HasPrefixAt(s, p, i)})

\* The fill colour of input line i, <<>> when it has none.
Fill(i) == colorFromLine(lines[i])
FillLines == {i \in 1..Len(lines) : Fill(i) # <<>>}

\* A line without its fill attribute of colour k.
WithoutFill(line, k) ==
    LET attr == T_FillAttr \o k \o T_Quote
        at == Index(line, attr)
    IN  SubSeq(line, 1, at - 1) \o SubSeq(line, at + Len(attr), Len(line))

\* What the group of fill colour k contains in the text out: the text
\* between its <g fill="k"> and the next </g>.
GroupText(out, k) ==
    LET open == T_GOpen \o k \o T_TagEnd
        from == Index(out, open) + Len(open)
        rest == SubSeq(out, from, Len(out))
    IN  SubSeq(rest, 1, Index(rest, T_GClose) - 1)

\* Every line with a fill is in the group of its fill, without that fill,
\* as often as the input holds it; there is one group per fill colour, and
\* as many rectangles as in the input.
RectanglesKept ==
    LET fc == FillColors(lines)
        F == {i \in 1..Len(fc) : fc[i] # <<>>}
        out == Concat(outLines)
    IN  /\ Len(outLines) = Len(lines)
        /\ CountOcc(out, T_Rect) = CountOcc(Concat(lines), T_Rect)
        /\ CountOcc(out, T_GOpen) = Cardinality({fc[i] : i \in F})
        /\ \A i \in F :
              LET group == GroupText(out, fc[i])
                  line == WithoutFill(lines[i], fc[i])
              IN  /\ CountOcc(out, T_GOpen \o fc[i] \o T_TagEnd) = 1
                  /\ CountOcc(group, line)
                        = Cardinality({j \in F : /\ fc[j] = fc[i]
                                                 /\ WithoutFill(lines[j], fc[j]) = line})
                  /\ ~Contains(group, T_FillAttr)

\* The first line that is empty once the lines with a fill are erased.
FirstSlot ==
    LET fc == FillColors(lines)
        E == {i \in 1..Len(lines) : fc[i] # <<>> \/ lines[i] = <<>>}
    IN  IF E = {} THEN 0 ELSE CHOOSE i \in E : \A j \in E : i <= j

FirstFill ==
    LET F == FillLines IN CHOOSE i \in F : \A j \in F : i <= j

\* C8 as claimed: groupLinesByFillColor keeps every rectangle, in the group
\* of its fill and without its fill attribute, and leaves every line
\* without a fill attribute as it was.
C8_Claimed ==
    pc = "grouped"
        => /\ RectanglesKept
           /\ LET F == FillLines
              IN  \A i \in (1..Len(lines)) \ F : outLines[i] = lines[i]

\* C8 amended: groupLinesByFillColor keeps every rectangle, in the group of
\* its fill and without its fill attribute, and leaves every line without a
\* fill attribute as it was, except an empty line that precedes every line
\* with a fill and every other empty line: that line receives the groups.
C8_GroupingKeepsRectangles ==
    pc = "grouped"
        => /\ RectanglesKept
           /\ LET F == FillLines
                  slot == FirstSlot
              IN  \A i \in (1..Len(lines)) \ F :
                     \/ outLines[i] = lines[i]
                     \/ /\ F # {}
                        /\ i = slot
                        /\ lines[i] = <<>>
                        /\ outLines[i] # <<>>

\* C8 witness: a document of an envelope line and two different rectangles
\* of one fill has been grouped.
C8_Witness ==
    /\ pc = "grouped"
    /\ Len(lines) = 3
    /\ lines[1] # <<>> /\ Fill(1) = <<>>
    /\ Fill(2) # <<>> /\ Fill(2) = Fill(3) /\ lines[2] # lines[3]
    /\ CountOcc(Concat(outLines), T_Rect) = 2

\* The fill a colour value is written as after the minimization, as claimed.
NamedFill(f) ==
    IF f \in {T_F00, T_FF0000} THEN T_Red
    ELSE IF f = T_FFFFFF THEN T_White
    ELSE IF f = T_000000 THEN T_Black
    ELSE f

\* C9 as claimed: String rewrites a fill value only when the whole value is
\* #f00, #ff0000, #ffffff or #000000, and every other fill value is in the
\* returned document unchanged.
C9_Claimed ==
    pc = "string"
        => \A i \in FillLines :
              Contains(doc, T_FillEq \o T_Quote \o NamedFill(Fill(i)) \o T_Quote)

\* The lines of groupLinesByFillColor(lines) are those of the input with the
\* groups at line at, every other line with a fill empty, and the other
\* lines as they were.
GroupsAt(at) ==
    LET fc == FillColors(lines)
    IN  /\ Len(outLines) = Len(lines)
        /\ \E order \in MapOrders(GroupKeys(lines)) :
              outLines[at] = GroupContents(lines, fc, order)
        /\ outLines[at] # <<>>
        /\ \A i \in (1..Len(lines)) \ {at} :
              outLines[i] = IF fc[i] # <<>> THEN <<>> ELSE lines[i]

\* C10 as claimed: for lines of which one or more have a fill, the groups
\* are at the index of the first line with a fill.
C10_Claimed ==
    (pc = "grouped" /\ FillLines # {}) => GroupsAt(FirstFill)

\* C10 amended: for lines of which one or more have a fill, the groups are
\* at the index of the first line that is empty or has a fill.
C10_GroupsAtFirstSlot ==
    (pc = "grouped" /\ FillLines # {}) => GroupsAt(FirstSlot)

\* C10 witness: an empty line, then two rectangles of different fills: the
\* groups are in the first line, and the two others are empty.
C10_Witness ==
    /\ pc = "grouped"
    /\ Len(lines) = 3
    /\ lines[1] = <<>>
    /\ Fill(2) # <<>> /\ Fill(3) # <<>> /\ Fill(2) # Fill(3)
    /\ outLines[1] # <<>> /\ outLines[2] = <<>> /\ outLines[3] = <<>>

====
